---- MODULE Spec2Model ----
(***************************************************************************)
(* A model of todo_cli (src/src/main.rs): the file-backed TodoList store,  *)
(* its JSON persistence, its hash-based duplicate policy and the command   *)
(* flows of main, including the interactive selection flows of the view    *)
(* and delete commands.                                                    *)
(*                                                                         *)
(* Text is modelled as sequences of one-character strings, a file as the   *)
(* sequence of its characters together with the cursor of the open handle. *)
(***************************************************************************)
EXTENDS Integers, Sequences, FiniteSets, Bags, TLC

(***************************************************************************)
(* Bounds of the model.                                                    *)
(***************************************************************************)
\* the add command is not launched on a store that already holds MaxLen items
MaxLen == 3

(***************************************************************************)
(* Characters and strings.                                                 *)
(***************************************************************************)
\* A character is a one-character string; the control characters without a
\* string escape are named: "NUL" (U+0000) and "BS" (U+0008).
\* The UTF-8 byte of an (ASCII) character of the model.
Ord(c) ==
    CASE c = "a" -> 97 [] c = "b" -> 98 [] c = "x" -> 120 [] c = "q" -> 113
      [] c = "A" -> 65 [] c = "B" -> 66 [] c = "\"" -> 34 [] c = "\\" -> 92
      [] c = "/" -> 47 [] c = " " -> 32 [] c = "\n" -> 10 [] c = "\t" -> 9
      [] c = "\r" -> 13 [] c = "\f" -> 12 [] c = "BS" -> 8 [] c = "NUL" -> 0
      [] OTHER -> 63

\* char::from_u32 on the code points of the model; any other code point is
\* named by its number
Chr(n) ==
    CASE n = 97 -> "a" [] n = 98 -> "b" [] n = 120 -> "x" [] n = 113 -> "q"
      [] n = 65 -> "A" [] n = 66 -> "B" [] n = 34 -> "\"" [] n = 92 -> "\\"
      [] n = 47 -> "/" [] n = 32 -> " " [] n = 10 -> "\n" [] n = 9 -> "\t"
      [] n = 13 -> "\r" [] n = 12 -> "\f" [] n = 8 -> "BS" [] n = 0 -> "NUL"
      [] OTHER -> "U+" \o ToString(n)

\* char::to_lowercase on the characters of the model
LowerChar(c) ==
    CASE c = "A" -> "a" [] c = "B" -> "b" [] OTHER -> c

\* str::to_lowercase
to_lowercase(s) == [i \in 1..Len(s) |-> LowerChar(s[i])]

\* str::as_bytes
as_bytes(s) == [i \in 1..Len(s) |-> Ord(s[i])]

(***************************************************************************)
(* u64 words, as four 16-bit limbs <<l0, l1, l2, l3>>, least significant   *)
(* first.                                                                  *)
(***************************************************************************)
LimbBase == 65536

\* byte i of bs, zero beyond its end
ByteAt(bs, i) == IF i <= Len(bs) THEN bs[i] ELSE 0

\* u64::from_le_bytes of at most 8 bytes (missing bytes are zero)
from_le_bytes(bs) ==
    << ByteAt(bs, 1) + 256 * ByteAt(bs, 2), ByteAt(bs, 3) + 256 * ByteAt(bs, 4),
       ByteAt(bs, 5) + 256 * ByteAt(bs, 6), ByteAt(bs, 7) + 256 * ByteAt(bs, 8) >>

RECURSIVE Xor16(_, _)
Xor16(a, b) ==
    IF a = 0 THEN b
    ELSE IF b = 0 THEN a
    ELSE ((a + b) % 2) + 2 * Xor16(a \div 2, b \div 2)

\* u64 ^ u64
BitXor(a, b) == <<Xor16(a[1], b[1]), Xor16(a[2], b[2]), Xor16(a[3], b[3]), Xor16(a[4], b[4])>>

\* limb l of a rotated left by q whole limbs
RotLimb(a, q, l) == a[((l - 1 - q) % 4) + 1]

\* limb l of a rotated left by q limbs and r bits: the low bits of its limb
\* and the high bits of the limb below
RotBits(a, q, r, l) ==
    ((RotLimb(a, q, l) % (2^(16 - r))) * (2^r))
        + (RotLimb(a, q, ((l - 2) % 4) + 1) \div (2^(16 - r)))

\* u64::rotate_left
rotate_left(a, n) ==
    << RotBits(a, n \div 16, n % 16, 1), RotBits(a, n \div 16, n % 16, 2),
       RotBits(a, n \div 16, n % 16, 3), RotBits(a, n \div 16, n % 16, 4) >>

\* the limbs from l on of a + b with the carry of the limbs below
RECURSIVE AddLimbs(_, _, _, _)
AddLimbs(a, b, l, carry) ==
    IF l > 4 THEN <<>>
    ELSE <<(a[l] + b[l] + carry) % LimbBase>>
            \o AddLimbs(a, b, l + 1, (a[l] + b[l] + carry) \div LimbBase)

\* u64::wrapping_add
wrapping_add(a, b) == AddLimbs(a, b, 1, 0)

(***************************************************************************)
(* std::hash::DefaultHasher: SipHash-1-3 with the keys (0, 0).             *)
(***************************************************************************)
\* v0 += v1; v1 = rotl(v1, 13) ^ v0; v0 = rotl(v0, 32)
Mix01(v, sum) == <<rotate_left(sum, 32), BitXor(rotate_left(v[2], 13), sum), v[3], v[4]>>
\* v2 += v3; v3 = rotl(v3, 16) ^ v2
Mix23(v, sum) == <<v[1], v[2], sum, BitXor(rotate_left(v[4], 16), sum)>>
\* v0 += v3; v3 = rotl(v3, 21) ^ v0
Mix03(v, sum) == <<sum, v[2], v[3], BitXor(rotate_left(v[4], 21), sum)>>
\* v2 += v1; v1 = rotl(v1, 17) ^ v2; v2 = rotl(v2, 32)
Mix21(v, sum) == <<v[1], BitXor(rotate_left(v[2], 17), sum), rotate_left(sum, 32), v[4]>>

Step01(v) == Mix01(v, wrapping_add(v[1], v[2]))
Step23(v) == Mix23(v, wrapping_add(v[3], v[4]))
Step03(v) == Mix03(v, wrapping_add(v[1], v[4]))
Step21(v) == Mix21(v, wrapping_add(v[3], v[2]))

\* one SipRound on the state <<v0, v1, v2, v3>>
SipRound(v) == Step21(Step03(Step23(Step01(v))))

\* the initial state for the keys (0, 0): "somepseu", "dorandom", "lygenera", "tedbytes"
SipInit ==
    << from_le_bytes(<<117, 101, 115, 112, 101, 109, 111, 115>>),
       from_le_bytes(<<109, 111, 100, 110, 97, 114, 111, 100>>),
       from_le_bytes(<<97, 114, 101, 110, 101, 103, 121, 108>>),
       from_le_bytes(<<115, 101, 116, 121, 98, 100, 101, 116>>) >>

\* v0 ^= m after the round
XorV0(w, m) == <<BitXor(w[1], m), w[2], w[3], w[4]>>

\* absorb one 8-byte word m (one compression round)
SipAbsorb(v, m) == XorV0(SipRound(<<v[1], v[2], v[3], BitXor(v[4], m)>>), m)

\* v0 ^ v1 ^ v2 ^ v3
SipFold(f) == BitXor(BitXor(f[1], f[2]), BitXor(f[3], f[4]))

\* the element of a singleton set: the element is a value before it is used
Only(S) == CHOOSE w \in S : TRUE

\* n rounds, one after the other
RECURSIVE SipRounds(_, _)
SipRounds(v, n) ==
    IF n = 0 THEN v ELSE Only({SipRounds(w, n - 1) : w \in {SipRound(v)}})

\* Hasher::finish after the last word: v2 ^= 0xff and three rounds
SipFinish(w) ==
    SipFold(SipRounds(<<w[1], w[2], BitXor(w[3], <<255, 0, 0, 0>>), w[4]>>, 3))

\* the last word: the bytes left, zeros, and the length of the message mod 256
LastWord(bytes, total) ==
    from_le_bytes(<<ByteAt(bytes, 1), ByteAt(bytes, 2), ByteAt(bytes, 3), ByteAt(bytes, 4),
                    ByteAt(bytes, 5), ByteAt(bytes, 6), ByteAt(bytes, 7), total % 256>>)

\* Hasher::write over the whole message, then Hasher::finish
RECURSIVE SipBlocks(_, _, _)
SipBlocks(v, bytes, total) ==
    IF Len(bytes) >= 8
    THEN Only({SipBlocks(w, SubSeq(bytes, 9, Len(bytes)), total) :
                  w \in {SipAbsorb(v, from_le_bytes(SubSeq(bytes, 1, 8)))}})
    ELSE Only({SipFinish(w) : w \in {SipAbsorb(v, LastWord(bytes, total))}})

SipHash13(bytes) == SipBlocks(SipInit, bytes, Len(bytes))

(***************************************************************************)
(* TodoItem and serde_json.                                                *)
(***************************************************************************)
\* struct TodoItem { name: String, content: String, priority: i16 }
TodoItem(n, c, p) == [name |-> n, content |-> c, priority |-> p]

I16Min == -32768
I16Max == 32767

Digit(d) == CASE d = 0 -> "0" [] d = 1 -> "1" [] d = 2 -> "2" [] d = 3 -> "3"
              [] d = 4 -> "4" [] d = 5 -> "5" [] d = 6 -> "6" [] d = 7 -> "7"
              [] d = 8 -> "8" [] OTHER -> "9"

Digits == {"0", "1", "2", "3", "4", "5", "6", "7", "8", "9"}

DigitVal(c) == CHOOSE d \in 0..9 : Digit(d) = c

\* itoa: the decimal digits of a natural number
RECURSIVE NatToStr(_)
NatToStr(n) == IF n < 10 THEN <<Digit(n)>> ELSE NatToStr(n \div 10) \o <<Digit(n % 10)>>

\* Serializer::serialize_i16
serialize_i16(p) == IF p < 0 THEN <<"-">> \o NatToStr(0 - p) ELSE NatToStr(p)

Hex(d) == IF d < 10 THEN Digit(d)
          ELSE CASE d = 10 -> "a" [] d = 11 -> "b" [] d = 12 -> "c"
                 [] d = 13 -> "d" [] d = 14 -> "e" [] OTHER -> "f"

\* serde_json's escape of one character of a string (format_escaped_str)
EscapeChar(c) ==
    CASE c = "\"" -> <<"\\", "\"">>
      [] c = "\\" -> <<"\\", "\\">>
      [] c = "\n" -> <<"\\", "n">>
      [] c = "\t" -> <<"\\", "t">>
      [] c = "\r" -> <<"\\", "r">>
      [] c = "\f" -> <<"\\", "f">>
      [] c = "BS" -> <<"\\", "b">>
      [] c = "NUL" -> <<"\\", "u", "0", "0", "0", "0">>
      [] OTHER -> <<c>>

RECURSIVE EscapeBody(_)
EscapeBody(s) == IF s = <<>> THEN <<>> ELSE EscapeChar(Head(s)) \o EscapeBody(Tail(s))

\* Serializer::serialize_str
serialize_str(s) == <<"\"">> \o EscapeBody(s) \o <<"\"">>

\* the text of a key as written by the serializer: "key":
KeyText(k) == <<"\"">> \o k \o <<"\"", ":">>

NameKey == <<"n", "a", "m", "e">>
ContentKey == <<"c", "o", "n", "t", "e", "n", "t">>
PriorityKey == <<"p", "r", "i", "o", "r", "i", "t", "y">>

\* #[derive(Serialize)] for TodoItem, compact formatter
serialize_item(t) ==
    <<"{">> \o KeyText(NameKey) \o serialize_str(t.name)
      \o <<",">> \o KeyText(ContentKey) \o serialize_str(t.content)
      \o <<",">> \o KeyText(PriorityKey) \o serialize_i16(t.priority)
      \o <<"}">>

RECURSIVE serialize_items(_)
serialize_items(buf) ==
    IF buf = <<>> THEN <<>>
    ELSE IF Len(buf) = 1 THEN serialize_item(buf[1])
    ELSE serialize_item(buf[1]) \o <<",">> \o serialize_items(Tail(buf))

\* serde_json::to_string(&Vec<TodoItem>)
to_string(buf) == <<"[">> \o serialize_items(buf) \o <<"]">>

(***************************************************************************)
(* serde_json::from_str::<Vec<TodoItem>>: a parser over the characters s,  *)
(* positions from 1.  A result is [ok, pos, val]: pos is the position      *)
(* after what was read.                                                    *)
(***************************************************************************)
At(s, i) == IF i >= 1 /\ i <= Len(s) THEN s[i] ELSE "EOF"

Err == [ok |-> FALSE, pos |-> 0, val |-> <<>>]
Ok(p, v) == [ok |-> TRUE, pos |-> p, val |-> v]

\* the whitespace of JSON
JsonWs == {" ", "\n", "\t", "\r"}

\* the characters that may not appear unescaped in a string
ControlChars == {"\n", "\t", "\r", "\f", "BS", "NUL"}

RECURSIVE SkipWs(_, _)
SkipWs(s, i) == IF At(s, i) \in JsonWs THEN SkipWs(s, i + 1) ELSE i

HexVal(c) ==
    IF c \in Digits THEN DigitVal(c)
    ELSE CASE c \in {"a", "A"} -> 10 [] c \in {"b", "B"} -> 11
           [] c \in {"c", "C"} -> 12 [] c \in {"d", "D"} -> 13
           [] c \in {"e", "E"} -> 14 [] c \in {"f", "F"} -> 15
           [] OTHER -> -1

\* the code unit of the four hex digits at i..i+3, or -1
HexWord(h) ==
    IF \E k \in 1..4 : h[k] < 0 THEN -1
    ELSE ((h[1] * 16 + h[2]) * 16 + h[3]) * 16 + h[4]

Hex4(s, i) == HexWord(<<HexVal(At(s, i)), HexVal(At(s, i + 1)),
                        HexVal(At(s, i + 2)), HexVal(At(s, i + 3))>>)

\* a code unit u read from \uXXXX at i - 1: a surrogate needs its pair
LowSurrogate(u) == u >= 56320 /\ u <= 57343
HighSurrogate(u) == u >= 55296 /\ u <= 56319

SurrogatePair(i, u, lo) ==
    IF LowSurrogate(lo) THEN Ok(i + 11, Chr(65536 + (u - 55296) * 1024 + (lo - 56320)))
    ELSE Err

UnicodeEscape(s, i, u) ==
    IF u < 0 \/ LowSurrogate(u) THEN Err
    ELSE IF HighSurrogate(u)
         THEN SurrogatePair(i, u, IF At(s, i + 5) = "\\" /\ At(s, i + 6) = "u"
                                  THEN Hex4(s, i + 7) ELSE -1)
    ELSE Ok(i + 5, Chr(u))

\* the escape after a backslash at i - 1: [ok, pos, val] with val a character
ParseEscape(s, i) ==
    CASE At(s, i) = "\"" -> Ok(i + 1, "\"")
      [] At(s, i) = "\\" -> Ok(i + 1, "\\")
      [] At(s, i) = "/" -> Ok(i + 1, "/")
      [] At(s, i) = "n" -> Ok(i + 1, "\n")
      [] At(s, i) = "t" -> Ok(i + 1, "\t")
      [] At(s, i) = "r" -> Ok(i + 1, "\r")
      [] At(s, i) = "f" -> Ok(i + 1, "\f")
      [] At(s, i) = "b" -> Ok(i + 1, "BS")
      [] At(s, i) = "u" -> UnicodeEscape(s, i, Hex4(s, i + 1))
      [] OTHER -> Err

\* the rest of a string whose opening quote was read; acc is what was read
RECURSIVE StrBody(_, _, _)

StrEscaped(s, acc, e) == IF e.ok THEN StrBody(s, e.pos, Append(acc, e.val)) ELSE Err

StrBody(s, i, acc) ==
    IF At(s, i) = "EOF" \/ At(s, i) \in ControlChars THEN Err
    ELSE IF At(s, i) = "\"" THEN Ok(i + 1, acc)
    ELSE IF At(s, i) = "\\" THEN StrEscaped(s, acc, ParseEscape(s, i + 1))
    ELSE StrBody(s, i + 1, Append(acc, At(s, i)))

\* Deserialize for String
ParseStr(s, i) == IF At(s, i) = "\"" THEN StrBody(s, i + 1, <<>>) ELSE Err

\* the digits from i: <<position after them, value>>; the value stops growing
\* once it is beyond every i16
RECURSIVE DigitRun(_, _, _)
DigitRun(s, i, acc) ==
    IF At(s, i) \in Digits
    THEN DigitRun(s, i + 1, IF acc > I16Max + 1 THEN acc ELSE acc * 10 + DigitVal(At(s, i)))
    ELSE <<i, acc>>

\* the integer whose digits were read as run = <<position after, value>>
I16Value(s, neg, zero, run) ==
    IF zero /\ At(s, run[1]) \in Digits THEN Err          \* leading zero
    ELSE IF At(s, run[1]) \in {".", "e", "E"} THEN Err    \* a float
    ELSE IF neg /\ run[2] = 0 THEN Err                    \* -0 is read as a float
    ELSE IF neg /\ run[2] > 0 - I16Min THEN Err
    ELSE IF ~neg /\ run[2] > I16Max THEN Err
    ELSE Ok(run[1], IF neg THEN 0 - run[2] ELSE run[2])

\* the digits of an integer from j, after its sign
I16Digits(s, neg, j) ==
    IF At(s, j) \notin Digits THEN Err
    ELSE I16Value(s, neg, At(s, j) = "0",
                  IF At(s, j) = "0" THEN <<j + 1, 0>> ELSE DigitRun(s, j, 0))

\* Deserialize for i16
ParseI16(s, i) == I16Digits(s, At(s, i) = "-", IF At(s, i) = "-" THEN i + 1 ELSE i)

\* whether the characters of word stand at i
Literal(s, i, word) == \A k \in 1..Len(word) : At(s, i + k - 1) = word[k]

RECURSIVE SkipDigits(_, _)
SkipDigits(s, i) == IF At(s, i) \in Digits THEN SkipDigits(s, i + 1) ELSE i

\* the parts of a JSON number: each gives the position after it, or 0
SkipInt(s, j) ==
    IF At(s, j) = "0" THEN (IF At(s, j + 1) \in Digits THEN 0 ELSE j + 1)
    ELSE IF At(s, j) \in Digits THEN SkipDigits(s, j)
    ELSE 0

SkipFrac(s, k) ==
    IF k = 0 THEN 0
    ELSE IF At(s, k) # "." THEN k
    ELSE IF At(s, k + 1) \in Digits THEN SkipDigits(s, k + 1)
    ELSE 0

ExpDigits(s, x) == IF At(s, x) \in Digits THEN SkipDigits(s, x) ELSE 0

SkipExp(s, f) ==
    IF f = 0 THEN 0
    ELSE IF At(s, f) \notin {"e", "E"} THEN f
    ELSE ExpDigits(s, IF At(s, f + 1) \in {"+", "-"} THEN f + 2 ELSE f + 1)

\* a JSON number at i: the position after it, or 0
SkipNumber(s, i) == SkipExp(s, SkipFrac(s, SkipInt(s, IF At(s, i) = "-" THEN i + 1 ELSE i)))

\* IgnoredAny: any JSON value at i (after whitespace): the position after it, or 0
RECURSIVE SkipValue(_, _), SkipElems(_, _), SkipMembers(_, _)

\* after an element that ended before v: a comma and more, or the ]
ElemsSep(s, j) ==
    IF At(s, j) = "," THEN SkipElems(s, SkipWs(s, j + 1))
    ELSE IF At(s, j) = "]" THEN j + 1
    ELSE 0

ElemsNext(s, v) == IF v = 0 THEN 0 ELSE ElemsSep(s, SkipWs(s, v))

\* the elements of an array from i, up to and including its ]
SkipElems(s, i) == ElemsNext(s, SkipValue(s, i))

MemberSep(s, j) ==
    IF At(s, j) = "," THEN SkipMembers(s, SkipWs(s, j + 1))
    ELSE IF At(s, j) = "}" THEN j + 1
    ELSE 0

MemberNext(s, v) == IF v = 0 THEN 0 ELSE MemberSep(s, SkipWs(s, v))

MemberValue(s, c) ==
    IF At(s, c) # ":" THEN 0 ELSE MemberNext(s, SkipValue(s, SkipWs(s, c + 1)))

MemberColon(s, k) == IF ~k.ok THEN 0 ELSE MemberValue(s, SkipWs(s, k.pos))

\* the members of an object from i, up to and including its }
SkipMembers(s, i) == MemberColon(s, ParseStr(s, i))

\* after [ or {: the closing bracket, or what the container holds
SkipArray(s, j) == IF At(s, j) = "]" THEN j + 1 ELSE SkipElems(s, j)
SkipObject(s, j) == IF At(s, j) = "}" THEN j + 1 ELSE SkipMembers(s, j)

SkipValue(s, i) ==
    CASE At(s, i) = "\"" -> ParseStr(s, i).pos
      [] At(s, i) = "-" \/ At(s, i) \in Digits -> SkipNumber(s, i)
      [] At(s, i) = "t" -> IF Literal(s, i, <<"t", "r", "u", "e">>) THEN i + 4 ELSE 0
      [] At(s, i) = "f" -> IF Literal(s, i, <<"f", "a", "l", "s", "e">>) THEN i + 5 ELSE 0
      [] At(s, i) = "n" -> IF Literal(s, i, <<"n", "u", "l", "l">>) THEN i + 4 ELSE 0
      [] At(s, i) = "[" -> SkipArray(s, SkipWs(s, i + 1))
      [] At(s, i) = "{" -> SkipObject(s, SkipWs(s, i + 1))
      [] OTHER -> 0

\* the fields read so far: each a sequence of no or one value
NoFields == [name |-> <<>>, content |-> <<>>, priority |-> <<>>]

\* whether the field of the key was read already
IsDuplicate(f, key) ==
    \/ key = NameKey /\ f.name # <<>>
    \/ key = ContentKey /\ f.content # <<>>
    \/ key = PriorityKey /\ f.priority # <<>>

\* the fields with the value of the key; another key is ignored
SetField(f, key, val) ==
    CASE key = NameKey -> [f EXCEPT !.name = <<val>>]
      [] key = ContentKey -> [f EXCEPT !.content = <<val>>]
      [] key = PriorityKey -> [f EXCEPT !.priority = <<val>>]
      [] OTHER -> f

\* a value that is read and forgotten
Ignored(e) == IF e = 0 THEN Err ELSE Ok(e, <<>>)

\* the value of the key, by the type of its field
FieldValue(s, key, a) ==
    CASE key = NameKey \/ key = ContentKey -> ParseStr(s, a)
      [] key = PriorityKey -> ParseI16(s, a)
      [] OTHER -> Ignored(SkipValue(s, a))

\* the item of the fields, none of which may miss; p is the position after }
ItemOf(g, p) ==
    IF g.name = <<>> \/ g.content = <<>> \/ g.priority = <<>> THEN Err
    ELSE Ok(p, TodoItem(g.name[1], g.content[1], g.priority[1]))

\* #[derive(Deserialize)] visit_map: the members of a TodoItem object from i.
\* A repeated field and a missing field are errors, another key is ignored.
RECURSIVE ItemMembers(_, _, _)

ItemSep(s, g, j) ==
    IF At(s, j) = "," THEN ItemMembers(s, SkipWs(s, j + 1), g)
    ELSE IF At(s, j) = "}" THEN ItemOf(g, j + 1)
    ELSE Err

ItemValue(s, f, key, v) ==
    IF ~v.ok THEN Err ELSE ItemSep(s, SetField(f, key, v.val), SkipWs(s, v.pos))

ItemColon(s, f, key, c) ==
    IF At(s, c) # ":" THEN Err
    ELSE IF IsDuplicate(f, key) THEN Err
    ELSE ItemValue(s, f, key, FieldValue(s, key, SkipWs(s, c + 1)))

ItemKey(s, f, k) == IF ~k.ok THEN Err ELSE ItemColon(s, f, k.val, SkipWs(s, k.pos))

ItemMembers(s, i, f) == ItemKey(s, f, ParseStr(s, i))

\* #[derive(Deserialize)] visit_seq: a TodoItem written as [name, content, priority]
SeqEnd(s, n, c, p) ==
    IF ~p.ok \/ At(s, SkipWs(s, p.pos)) # "]" THEN Err
    ELSE Ok(SkipWs(s, p.pos) + 1, TodoItem(n, c, p.val))

SeqThird(s, n, c) ==
    IF ~c.ok \/ At(s, SkipWs(s, c.pos)) # "," THEN Err
    ELSE SeqEnd(s, n, c.val, ParseI16(s, SkipWs(s, SkipWs(s, c.pos) + 1)))

SeqSecond(s, n) ==
    IF ~n.ok \/ At(s, SkipWs(s, n.pos)) # "," THEN Err
    ELSE SeqThird(s, n.val, ParseStr(s, SkipWs(s, SkipWs(s, n.pos) + 1)))

ItemSeq(s, i) == SeqSecond(s, ParseStr(s, SkipWs(s, i)))

\* after {: an empty object has no field
ItemObject(s, j) == IF At(s, j) = "}" THEN Err ELSE ItemMembers(s, j, NoFields)

\* Deserialize for TodoItem (deserialize_struct): an object or an array
ParseItem(s, i) ==
    IF At(s, i) = "{" THEN ItemObject(s, SkipWs(s, i + 1))
    ELSE IF At(s, i) = "[" THEN ItemSeq(s, i + 1)
    ELSE Err

\* the elements of the top-level array from i, up to and including its ]
RECURSIVE VecElems(_, _, _)

VecSep(s, acc, j) ==
    IF At(s, j) = "," THEN VecElems(s, SkipWs(s, j + 1), acc)
    ELSE IF At(s, j) = "]" THEN Ok(j + 1, acc)
    ELSE Err

VecItem(s, acc, t) == IF ~t.ok THEN Err ELSE VecSep(s, Append(acc, t.val), SkipWs(s, t.pos))

VecElems(s, i, acc) == VecItem(s, acc, ParseItem(s, i))

\* after the [ of the array
VecFirst(s, j) == IF At(s, j) = "]" THEN Ok(j + 1, <<>>) ELSE VecElems(s, j, <<>>)

VecStart(s, i) == IF At(s, i) # "[" THEN Err ELSE VecFirst(s, SkipWs(s, i + 1))

\* Deserializer::end: only whitespace may follow the value
VecEnd(s, v) == IF v.ok /\ SkipWs(s, v.pos) = Len(s) + 1 THEN v ELSE Err

\* serde_json::from_str::<Vec<TodoItem>>: the whole text must be one array
from_str(s) == VecEnd(s, VecStart(s, SkipWs(s, 1)))

(***************************************************************************)
(* The items and keywords the commands of the model are given.             *)
(***************************************************************************)
Items ==
    { TodoItem(<<"a">>, <<"b", "x">>, 0),
      TodoItem(<<"a", "b">>, <<"x">>, 0),
      TodoItem(<<"a">>, <<"b", "x">>, 1),
      TodoItem(<<"A", "b">>, <<"q", "\"">>, -1),
      TodoItem(<<"a">>, <<"x">>, 0) }

Keywords == { <<"a">>, <<"B">>, <<"q">> }

Names == {t.name : t \in Items} \cup Keywords

(***************************************************************************)
(* calculate_hash: #[derive(Hash)] feeds the fields in order to the        *)
(* DefaultHasher; a str is its bytes and 0xff, an i16 its two bytes.       *)
(***************************************************************************)
\* i16::to_ne_bytes (little endian)
i16_bytes(p) == <<(p % 65536) % 256, (p % 65536) \div 256>>

\* a str hashed without the 0xff that ends it
str_hash_bytes_unterminated(s) == as_bytes(s)

\* <str as Hash>::hash
str_hash_bytes(s) == as_bytes(s) \o <<255>>

\* <TodoItem as Hash>::hash: what the hasher is fed
hash_bytes(t) == str_hash_bytes(t.name) \o str_hash_bytes(t.content) \o i16_bytes(t.priority)

\* the hashes of the items of the model, each computed once
HashOf == [t \in Items |-> SipHash13(hash_bytes(t))]

calculate_hash(t) == HashOf[t]

(***************************************************************************)
(* std::fs::File: the characters of the file and the cursor of the handle. *)
(***************************************************************************)
Nuls(n) == [i \in 1..n |-> "NUL"]

\* File::set_len: truncates, or extends with zero bytes; the cursor stays
set_len(f, n) == IF n <= Len(f) THEN SubSeq(f, 1, n) ELSE f \o Nuls(n - Len(f))

\* the cursor left where it stands
rewind_skipped(cur) == cur

\* File::rewind
rewind(cur) == 0

\* File::write_all at the cursor: a cursor beyond the end leaves a gap of zeros
write_at(padded, cur, data) ==
    [file |-> SubSeq(padded, 1, cur) \o data
                \o SubSeq(padded, cur + Len(data) + 1, Len(padded)),
     cursor |-> cur + Len(data)]

write_all(f, cur, data) ==
    write_at(IF cur > Len(f) THEN f \o Nuls(cur - Len(f)) ELSE f, cur, data)

\* File::read_to_string from the cursor to the end
read_to_string(f, cur) == [content |-> SubSeq(f, cur + 1, Len(f)), cursor |-> Len(f)]

\* char::is_whitespace on the characters of the model (str::trim)
RustWs == {" ", "\n", "\t", "\r", "\f"}

\* content.trim().is_empty()
trim_is_empty(s) == \A i \in 1..Len(s) : s[i] \in RustWs

(***************************************************************************)
(* TodoList.  io is what the file system answers: "ok", or the step that   *)
(* fails.                                                                  *)
(***************************************************************************)
Range(seq) == {seq[i] : i \in 1..Len(seq)}

\* TodoList::add_item
add_item(buf, item) ==
    IF \E i \in 1..Len(buf) : calculate_hash(buf[i]) = calculate_hash(item)
    THEN [ret |-> FALSE, buffer |-> buf]
    ELSE [ret |-> TRUE, buffer |-> Append(buf, item)]

\* Vec::swap_remove: the last element takes the place of the removed one
swap_remove(v, index) ==
    [k \in 1..(Len(v) - 1) |-> IF k = index THEN v[Len(v)] ELSE v[k]]

\* the last index whose item has the name, or 0 (rposition)
position_last(buf, name) ==
    IF \E i \in 1..Len(buf) : buf[i].name = name
    THEN CHOOSE i \in 1..Len(buf) :
            buf[i].name = name /\ \A j \in (i + 1)..Len(buf) : buf[j].name # name
    ELSE 0

\* Iterator::position: the first index whose item has the name, or 0
position(buf, name) ==
    IF \E i \in 1..Len(buf) : buf[i].name = name
    THEN CHOOSE i \in 1..Len(buf) :
            buf[i].name = name /\ \A j \in 1..(i - 1) : buf[j].name # name
    ELSE 0

\* TodoList::del_by_name
remove_at(buf, index) == IF index # 0 THEN swap_remove(buf, index) ELSE buf

del_by_name(buf, name) == remove_at(buf, position(buf, name))

\* str::starts_with at offset i (from 0)
MatchAt(hay, needle, i) ==
    \A k \in 1..Len(needle) : i + k <= Len(hay) /\ hay[i + k] = needle[k]

\* str::contains: the needle is searched from every offset
RECURSIVE ContainsFrom(_, _, _)
ContainsFrom(hay, needle, i) ==
    IF i + Len(needle) > Len(hay) THEN FALSE
    ELSE IF MatchAt(hay, needle, i) THEN TRUE
    ELSE ContainsFrom(hay, needle, i + 1)

\* str::starts_with
starts_with(hay, needle) == MatchAt(hay, needle, 0)

contains(hay, needle) == ContainsFrom(hay, needle, 0)

\* the filter of find_items_by_name
name_matches(item, keyword_lower) == contains(to_lowercase(item.name), keyword_lower)

\* TodoList::find_items_by_name
RECURSIVE filter_items(_, _)
filter_items(buf, keyword_lower) ==
    IF buf = <<>> THEN <<>>
    ELSE IF name_matches(Head(buf), keyword_lower)
         THEN <<Head(buf)>> \o filter_items(Tail(buf), keyword_lower)
         ELSE filter_items(Tail(buf), keyword_lower)

find_items_by_name(buf, keyword) == filter_items(buf, to_lowercase(keyword))

\* TodoList::save_to_file: [ok, file, cursor]
written(w) == [ok |-> TRUE, file |-> w.file, cursor |-> w.cursor]

save_to_file(buf, f, cur, io) ==
    IF io = "set_len" THEN [ok |-> FALSE, file |-> f, cursor |-> cur]
    ELSE IF io = "write" THEN [ok |-> FALSE, file |-> set_len(f, 0), cursor |-> rewind(cur)]
    ELSE written(write_all(set_len(f, 0), rewind(cur), to_string(buf)))

\* a clear that empties the file and keeps the buffer
clear_file_only(buf, f, cur, io) ==
    IF io = "set_len" THEN [ok |-> FALSE, buffer |-> buf, file |-> f, cursor |-> cur]
    ELSE [ok |-> TRUE, buffer |-> buf, file |-> set_len(f, 0), cursor |-> 0]

\* TodoList::clear: [ok, buffer, file, cursor]
clear(buf, f, cur, io) ==
    IF io = "set_len" THEN [ok |-> FALSE, buffer |-> buf, file |-> f, cursor |-> cur]
    ELSE [ok |-> TRUE, buffer |-> <<>>, file |-> set_len(f, 0), cursor |-> rewind(cur)]

\* a parse failure taken for an empty list
parsed_or_default(parsed, cur) ==
    [err |-> "none", buffer |-> IF parsed.ok THEN parsed.val ELSE <<>>, cursor |-> cur]

\* TodoList::open: [err, buffer, cursor]; err is "none", "io" or "format"
parsed_buffer(parsed, cur) ==
    IF parsed.ok THEN [err |-> "none", buffer |-> parsed.val, cursor |-> cur]
    ELSE [err |-> "format", buffer |-> <<>>, cursor |-> cur]

\* the buffer of what was read: empty for blank content, else the parsed JSON
read_buffer(r) ==
    IF trim_is_empty(r.content) THEN [err |-> "none", buffer |-> <<>>, cursor |-> r.cursor]
    ELSE parsed_buffer(from_str(r.content), r.cursor)

open(f, io) ==
    IF io = "open" THEN [err |-> "io", buffer |-> <<>>, cursor |-> 0]
    ELSE read_buffer(read_to_string(f, rewind(0)))

\* todos.sort_by(|a, b| b.priority.cmp(&a.priority)): stable, descending
RECURSIVE insert_sorted(_, _)
insert_sorted(sorted, t) ==
    IF sorted = <<>> THEN <<t>>
    ELSE IF sorted[Len(sorted)].priority >= t.priority THEN Append(sorted, t)
    ELSE Append(insert_sorted(SubSeq(sorted, 1, Len(sorted) - 1), t), sorted[Len(sorted)])

RECURSIVE sort_by_priority(_)
sort_by_priority(v) ==
    IF v = <<>> THEN <<>>
    ELSE insert_sorted(sort_by_priority(SubSeq(v, 1, Len(v) - 1)), v[Len(v)])

(***************************************************************************)
(* Lines typed on stdin, and how main reads them.                          *)
(***************************************************************************)
Lines == { <<"1", "\n">>, <<"2", "\n">>, <<"3", "\n">>, <<"+", "2", "\n">>,
           <<"y", "\n">>, <<" ", "Y", "\n">>, <<"n", "\n">>, <<"\n">> }

\* str::trim
RECURSIVE trim_start(_)
trim_start(s) == IF s # <<>> /\ Head(s) \in RustWs THEN trim_start(Tail(s)) ELSE s

RECURSIVE trim_end(_)
trim_end(s) ==
    IF s # <<>> /\ s[Len(s)] \in RustWs THEN trim_end(SubSeq(s, 1, Len(s) - 1)) ELSE s

trim(s) == trim_end(trim_start(s))

\* str::parse::<usize>: digits after an optional +; [ok, val]
usize_of(d, run) ==
    IF d = <<>> \/ run[1] # Len(d) + 1 THEN [ok |-> FALSE, val |-> 0]
    ELSE [ok |-> TRUE, val |-> run[2]]

usize_digits(d) == usize_of(d, DigitRun(d, 1, 0))

parse_usize(s) == usize_digits(IF s # <<>> /\ Head(s) = "+" THEN Tail(s) ELSE s)

\* the answer "y" to `Are you sure?(y/N)`
is_yes(answer) == to_lowercase(trim(answer)) = <<"y">>

(***************************************************************************)
(* The files the first run may find at the resolved path.                  *)
(***************************************************************************)
Item1 == TodoItem(<<"a">>, <<"b", "x">>, 0)
Item2 == TodoItem(<<"a", "b">>, <<"x">>, 0)
Item6 == TodoItem(<<"a">>, <<"x">>, 0)

\* well-formed files, with the items they hold
ValidInit ==
    { [text |-> <<"[", "]">>, items |-> <<>>],
      [text |-> <<" ", "[", "\n">> \o serialize_item(Item1) \o <<" ", "]", "\n">>,
       items |-> <<Item1>>],
      [text |-> to_string(<<Item1, Item2, Item6>>), items |-> <<Item1, Item2, Item6>>] }

\* files that are empty or all whitespace
BlankInit == { <<>>, <<" ", "\n">>, <<"\f">> }

\* files that are no JSON array of items
InvalidInit ==
    { <<"n", "o", "t", " ", "j", "s", "o", "n">>,
      <<"[", "1", "]">>,
      <<"\f", "[", "]">>,
      <<"[">> \o serialize_item(Item1),
      <<"[", "]", "]">> }

InitFiles == {v.text : v \in ValidInit} \cup BlankInit \cup InvalidInit

(***************************************************************************)
(* State.                                                                  *)
(***************************************************************************)
VARIABLES
    file,       \* the characters of the file at the resolved path
    cursor,     \* the cursor of the open fs::File
    buffer,     \* TodoList.buffer
    pc,         \* where the main flow stands
    cmd,        \* the parsed Command
    openErr,    \* what TodoList::open gave: "unopened", "none", "io", "format"
    todos,      \* the candidates of view and delete, the matches of find
    selected,   \* the candidate the user confirmed (0: none)
    listLock,   \* who holds the Arc<Mutex<TodoList>>: "free", "main", "action"
    sel,        \* the Selector: "idle", "active", "confirmed", "cancelled", "error"
    act,        \* the bound action: "none", "acquire", "locked", "done"
    exitCode,   \* the exit status, -1 while the process runs
    dropped,    \* "no", or how the save of Drop ended: "saved", "failed"
    file0,      \* the file as the running process found it
    last        \* the last call on the store and what it returned

vars == << file, cursor, buffer, pc, cmd, openErr, todos, selected, listLock,
           sel, act, exitCode, dropped, file0, last >>

NoCmd == [kind |-> "none"]
NoCall == [op |-> "none"]

\* the state of a process before it opens the store
Fresh ==
    /\ cursor = 0
    /\ buffer = <<>>
    /\ cmd = NoCmd
    /\ openErr = "unopened"
    /\ todos = <<>>
    /\ selected = 0
    /\ listLock = "free"
    /\ sel = "idle"
    /\ act = "none"
    /\ exitCode = -1
    /\ dropped = "no"
    /\ last = NoCall

Init ==
    /\ file \in InitFiles
    /\ file0 = file
    /\ pc = "idle"
    /\ Fresh

(***************************************************************************)
(* main: one action per step of a command.                                 *)
(***************************************************************************)
Commands ==
    [kind : {"add"}, item : Items]
      \cup [kind : {"find", "delete"}, name : Keywords]
      \cup [kind : {"view", "clear"}]

\* how many items the file holds, for the bound on add
Held(f) == Len(open(f, "ok").buffer)

\* Command::parse, then the arm of the match
Launch(c) ==
    /\ pc = "idle"
    /\ c.kind = "add" => Held(file) < MaxLen
    /\ cmd' = c
    /\ file0' = file
    /\ pc' = IF c.kind = "clear" THEN "refuse" ELSE "open"
    /\ UNCHANGED << file, cursor, buffer, openErr, todos, selected, listLock,
                    sel, act, exitCode, dropped, last >>

\* std::process::exit: the process ends at once, no destructor runs
exit(code) ==
    /\ pc' = "exited"
    /\ exitCode' = code

\* exit_when_refuse (the clear command, before the store is opened)
Refuse(answer) ==
    /\ pc = "refuse"
    /\ IF is_yes(answer)
       THEN pc' = "open" /\ UNCHANGED exitCode
       ELSE exit(0)
    /\ UNCHANGED << file, cursor, buffer, cmd, openErr, todos, selected,
                    listLock, sel, act, dropped, file0, last >>

\* open_todo_list: TodoList::open_without_doubt
OpenStore(io) ==
    /\ pc = "open"
    /\ LET r == open(file, io) IN
         /\ openErr' = r.err
         /\ IF r.err = "none"
            THEN /\ buffer' = r.buffer
                 /\ cursor' = r.cursor
                 /\ pc' = cmd.kind
                 /\ UNCHANGED exitCode
            ELSE /\ exit(1)
                 /\ UNCHANGED << buffer, cursor >>
    /\ UNCHANGED << file, cmd, todos, selected, listLock, sel, act,
                    dropped, file0, last >>

\* Command::Add
AddCmd ==
    /\ pc = "add"
    /\ LET r == add_item(buffer, cmd.item) IN
         /\ buffer' = r.buffer
         /\ last' = [op |-> "add", ret |-> r.ret]
         /\ IF r.ret THEN pc' = "drop" /\ UNCHANGED exitCode ELSE exit(0)
    /\ UNCHANGED << file, cursor, cmd, openErr, todos, selected, listLock,
                    sel, act, dropped, file0 >>

\* a MutexGuard that outlives its statement: the holder keeps the lock
guard_kept(holder) == holder

\* a MutexGuard that is a temporary, or bound in a block, is dropped at the
\* end of the statement or block: the lock is free again
guard_dropped(holder) == "free"

\* Command::View, to the construction of the drop-down
ViewLoad ==
    /\ pc = "view"
    /\ listLock = "free"
    /\ todos' = sort_by_priority(buffer)
    /\ listLock' = guard_dropped("main")
    /\ IF todos' = <<>>
       THEN pc' = "drop" /\ UNCHANGED sel
       ELSE pc' = "view_wait" /\ sel' = "active"
    /\ UNCHANGED << file, cursor, buffer, cmd, openErr, selected, act,
                    exitCode, dropped, file0, last >>

\* dropdown.wait() returns to the view command
ViewWaitReturn ==
    /\ pc = "view_wait"
    /\ sel \in {"confirmed", "cancelled", "error"}
    /\ pc' = IF sel = "confirmed" THEN "view_choose" ELSE "drop"
    /\ UNCHANGED << file, cursor, buffer, cmd, openErr, todos, selected,
                    listLock, sel, act, exitCode, dropped, file0, last >>

\* "What do you want?": 1 shows the item, 2 asks to delete it
ViewChoose(answer) ==
    /\ pc = "view_choose"
    /\ LET selection == parse_usize(trim(answer)) IN
         IF ~selection.ok THEN exit(0)
         ELSE /\ pc' = IF selection.val = 2 THEN "view_confirm" ELSE "drop"
              /\ UNCHANGED exitCode
    /\ UNCHANGED << file, cursor, buffer, cmd, openErr, todos, selected,
                    listLock, sel, act, dropped, file0, last >>

\* "Are you sure?", then the deletion of the selected item by its name
ViewConfirm(answer) ==
    /\ pc = "view_confirm"
    /\ IF is_yes(answer)
       THEN /\ listLock = "free"
            /\ buffer' = del_by_name(buffer, todos[selected].name)
            /\ last' = [op |-> "del", ret |-> todos[selected].name]
            /\ listLock' = guard_dropped("main")
       ELSE UNCHANGED << buffer, last, listLock >>
    /\ pc' = "drop"
    /\ UNCHANGED << file, cursor, cmd, openErr, todos, selected, sel, act,
                    exitCode, dropped, file0 >>

\* Command::Find
FindCmd ==
    /\ pc = "find"
    /\ todos' = find_items_by_name(buffer, cmd.name)
    /\ last' = [op |-> "find", ret |-> todos']
    /\ pc' = "drop"
    /\ UNCHANGED << file, cursor, buffer, cmd, openErr, selected, listLock,
                    sel, act, exitCode, dropped, file0 >>

\* Command::Clear, after the confirmation
ClearCmd(io) ==
    /\ pc = "clear"
    /\ LET r == clear(buffer, file, cursor, io) IN
         /\ buffer' = r.buffer
         /\ file' = r.file
         /\ cursor' = r.cursor
         /\ last' = [op |-> "clear", ret |-> r.ok]
         /\ IF r.ok THEN pc' = "drop" /\ UNCHANGED exitCode ELSE exit(1)
    /\ UNCHANGED << cmd, openErr, todos, selected, listLock, sel, act,
                    dropped, file0 >>

\* Command::Delete, to the construction of the drop-down
DeleteLoad ==
    /\ pc = "delete"
    /\ listLock = "free"
    /\ todos' = find_items_by_name(buffer, cmd.name)
    /\ listLock' = guard_dropped("main")
    /\ IF todos' = <<>>
       THEN pc' = "drop" /\ UNCHANGED sel
       ELSE pc' = "delete_wait" /\ sel' = "active"
    /\ UNCHANGED << file, cursor, buffer, cmd, openErr, selected, act,
                    exitCode, dropped, file0, last >>

\* dropdown.wait() returns to the delete command
DeleteWaitReturn ==
    /\ pc = "delete_wait"
    /\ sel \in {"confirmed", "cancelled", "error"}
    /\ act \in {"none", "done"}
    /\ pc' = "drop"
    /\ UNCHANGED << file, cursor, buffer, cmd, openErr, todos, selected,
                    listLock, sel, act, exitCode, dropped, file0, last >>

\* the closure bound to a candidate of delete: list_clone.lock()
ActionLock ==
    /\ act = "acquire"
    /\ listLock = "free"
    /\ listLock' = "action"
    /\ act' = "locked"
    /\ UNCHANGED << file, cursor, buffer, pc, cmd, openErr, todos, selected,
                    sel, exitCode, dropped, file0, last >>

\* the closure bound to a candidate of delete: del_by_name, end of the closure
ActionDelete ==
    /\ act = "locked"
    /\ buffer' = del_by_name(buffer, todos[selected].name)
    /\ last' = [op |-> "del", ret |-> todos[selected].name]
    /\ listLock' = guard_dropped("action")
    /\ act' = "done"
    /\ UNCHANGED << file, cursor, pc, cmd, openErr, todos, selected, sel,
                    exitCode, dropped, file0 >>

\* impl Drop for TodoList, when main returns
Drop(io) ==
    /\ pc = "drop"
    /\ LET r == save_to_file(buffer, file, cursor, io) IN
         /\ file' = r.file
         /\ cursor' = r.cursor
         /\ dropped' = IF r.ok THEN "saved" ELSE "failed"
    /\ pc' = "exited"
    /\ exitCode' = 0
    /\ UNCHANGED << buffer, cmd, openErr, todos, selected, listLock,
                    sel, act, file0, last >>

\* the next invocation of the program finds the file the last one left
Restart ==
    /\ pc = "exited"
    /\ pc' = "idle"
    /\ file0' = file
    /\ cursor' = 0
    /\ buffer' = <<>>
    /\ cmd' = NoCmd
    /\ openErr' = "unopened"
    /\ todos' = <<>>
    /\ selected' = 0
    /\ listLock' = "free"
    /\ sel' = "idle"
    /\ act' = "none"
    /\ exitCode' = -1
    /\ dropped' = "no"
    /\ last' = NoCall
    /\ UNCHANGED file

(***************************************************************************)
(* The Selector (TerminalDropDown): Idle -> Active -> Confirmed|Cancelled. *)
(***************************************************************************)
\* the user confirms candidate i; a bound action is invoked
SelectorConfirm(i) ==
    /\ sel = "active"
    /\ i \in 1..Len(todos)
    /\ sel' = "confirmed"
    /\ selected' = i
    /\ act' = IF cmd.kind = "delete" THEN "acquire" ELSE act
    /\ UNCHANGED << file, cursor, buffer, pc, cmd, openErr, todos, listLock,
                    exitCode, dropped, file0, last >>

\* the user presses escape
SelectorCancel ==
    /\ sel = "active"
    /\ sel' = "cancelled"
    /\ UNCHANGED << file, cursor, buffer, pc, cmd, openErr, todos, selected,
                    listLock, act, exitCode, dropped, file0, last >>

\* the terminal cannot be put into interactive mode
SelectorError ==
    /\ sel = "active"
    /\ sel' = "error"
    /\ UNCHANGED << file, cursor, buffer, pc, cmd, openErr, todos, selected,
                    listLock, act, exitCode, dropped, file0, last >>

Next ==
    \/ \E c \in Commands : Launch(c)
    \/ \E answer \in Lines : Refuse(answer)
    \/ \E io \in {"ok", "open"} : OpenStore(io)
    \/ AddCmd
    \/ ViewLoad
    \/ ViewWaitReturn
    \/ \E answer \in Lines : ViewChoose(answer)
    \/ \E answer \in Lines : ViewConfirm(answer)
    \/ FindCmd
    \/ \E io \in {"ok", "set_len"} : ClearCmd(io)
    \/ DeleteLoad
    \/ DeleteWaitReturn
    \/ ActionLock
    \/ ActionDelete
    \/ \E io \in {"ok", "set_len", "write"} : Drop(io)
    \/ Restart
    \/ \E i \in 1..(MaxLen + 1) : SelectorConfirm(i)
    \/ SelectorCancel
    \/ SelectorError

Spec == Init /\ [][Next]_vars

(***************************************************************************)
(* The claims.                                                             *)
(***************************************************************************)
\* two records equal in all three fields
SameRecord(a, b) == a.name = b.name /\ a.content = b.content /\ a.priority = b.priority

\* how often x stands in seq
CountIn(seq, x) == Cardinality({i \in 1..Len(seq) : seq[i] = x})

\* new is old without one occurrence of t, every other record kept
RemovedOne(old, new, t) ==
    /\ Len(new) = Len(old) - 1
    /\ \A x \in Range(old) : CountIn(new, x) = CountIn(old, x) - (IF x = t THEN 1 ELSE 0)
    /\ Range(new) \subseteq Range(old)

\* the store exists: TodoList::open returned Ok in this process
StoreOpen == openErr = "none"

\* C1: add_item rejects a record equal in all three fields to a held one
\* (returns false, the sequence unchanged) and appends every other record at
\* the end (returns true).  Stated for every reachable store and every record
\* of Items, and for the add command that ran.
C1_AddPolicy ==
    /\ \A r \in Items :
         IF \E i \in 1..Len(buffer) : SameRecord(buffer[i], r)
         THEN add_item(buffer, r) = [ret |-> FALSE, buffer |-> buffer]
         ELSE add_item(buffer, r) = [ret |-> TRUE, buffer |-> buffer \o <<r>>]
    /\ last.op = "add" /\ last.ret =>
         /\ buffer # <<>>
         /\ SameRecord(buffer[Len(buffer)], cmd.item)
         /\ CountIn(buffer, cmd.item) = 1
    /\ last.op = "add" /\ ~last.ret =>
         /\ CountIn(buffer, cmd.item) = 1
         /\ buffer = open(file0, "ok").buffer

\* a duplicate was rejected while a record that differs from it in the
\* priority alone is held
C1_Witness ==
    /\ last.op = "add"
    /\ ~last.ret
    /\ \E i \in 1..Len(buffer) :
          /\ buffer[i].name = cmd.item.name
          /\ buffer[i].content = cmd.item.content
          /\ buffer[i].priority # cmd.item.priority

\* the first index of buf whose record has the name n
FirstNamed(buf, n) ==
    CHOOSE i \in 1..Len(buf) :
        buf[i].name = n /\ \A j \in 1..Len(buf) : buf[j].name = n => i <= j

\* C2: del_by_name removes exactly one record, the first in store order whose
\* name is exactly n, and keeps every other record (also later ones of the
\* same name); when no record has the name n the sequence is unchanged.
C2_DelFirst ==
    \A n \in Names :
        IF \E i \in 1..Len(buffer) : buffer[i].name = n
        THEN RemovedOne(buffer, del_by_name(buffer, n), buffer[FirstNamed(buffer, n)])
        ELSE del_by_name(buffer, n) = buffer

\* a record was deleted by its name and another record of that name is
\* still held
C2_Witness ==
    /\ last.op = "del"
    /\ dropped = "saved"
    /\ \E i \in 1..Len(buffer) : buffer[i].name = last.ret

\* C3: saving the record sequence of a store and opening the file again
\* gives an equal sequence, and the file holds exactly the serialization of
\* the sequence (whole-file replace: nothing is left of longer contents).
C3_RoundTrip ==
    /\ StoreOpen =>
         /\ save_to_file(buffer, file, cursor, "ok").file = to_string(buffer)
         /\ open(save_to_file(buffer, file, cursor, "ok").file, "ok").err = "none"
         /\ open(save_to_file(buffer, file, cursor, "ok").file, "ok").buffer = buffer
    /\ dropped = "saved" => file = to_string(buffer)

\* a store that still holds records was saved over a longer file
C3_Witness ==
    /\ dropped = "saved"
    /\ buffer # <<>>
    /\ Len(file) < Len(file0)
    /\ file0 # <<>>

\* C4: on every exit path of a command after the store was opened, except an
\* abort on an unrecoverable error (a non-zero exit status), the final save
\* ran before the process ended.
C4_FinalSave ==
    pc = "exited" /\ StoreOpen /\ exitCode = 0 => dropped # "no"

\* C5: clear leaves the sequence empty and the file at zero bytes, the next
\* save writes [], the final save of the clear command writes back no
\* record, and a second clear changes nothing.
C5_Clear ==
    /\ StoreOpen =>
         /\ clear(buffer, file, cursor, "ok").ok
         /\ clear(buffer, file, cursor, "ok").buffer = <<>>
         /\ clear(buffer, file, cursor, "ok").file = <<>>
         /\ save_to_file(clear(buffer, file, cursor, "ok").buffer,
                         clear(buffer, file, cursor, "ok").file,
                         clear(buffer, file, cursor, "ok").cursor, "ok").file = <<"[", "]">>
         /\ clear(clear(buffer, file, cursor, "ok").buffer,
                  clear(buffer, file, cursor, "ok").file,
                  clear(buffer, file, cursor, "ok").cursor, "ok")
              = clear(buffer, file, cursor, "ok")
    /\ last.op = "clear" /\ last.ret /\ dropped = "no" => buffer = <<>> /\ file = <<>>
    /\ last.op = "clear" /\ last.ret /\ dropped = "saved" =>
         buffer = <<>> /\ file = <<"[", "]">>

\* the clear command ended with its final save on a file that held records
C5_Witness ==
    /\ last.op = "clear"
    /\ last.ret
    /\ dropped = "saved"
    /\ open(file0, "ok").buffer # <<>>

\* the store was just opened: no command has touched it
JustOpened == pc \in {"add", "view", "find", "delete", "clear"}

\* the file was read: TodoList::open met no I/O error
FileRead == openErr \in {"none", "format"}

\* C6: open gives an empty sequence for an empty or all-whitespace file and
\* the records in file order for a valid JSON array of records; for any other
\* content it fails: no store is created, the process ends with a non-zero
\* exit status and the file is as it was before the run.
C6_Open ==
    /\ FileRead /\ file0 \in BlankInit =>
         openErr = "none" /\ (JustOpened => buffer = <<>>)
    /\ \A v \in ValidInit :
         FileRead /\ file0 = v.text =>
             openErr = "none" /\ (JustOpened => buffer = v.items)
    /\ FileRead /\ file0 \in InvalidInit =>
         /\ openErr = "format"
         /\ pc = "exited"
         /\ exitCode = 1
         /\ dropped = "no"
         /\ buffer = <<>>
         /\ file = file0
    /\ openErr = "format" => file0 \in InvalidInit

\* the open of a file that is a JSON array after a form feed failed
C6_Witness ==
    /\ openErr = "format"
    /\ pc = "exited"
    /\ file0 = <<"\f", "[", "]">>

\* needle stands somewhere in hay
IsSubstr(needle, hay) ==
    \E o \in 0..(Len(hay) - Len(needle)) : SubSeq(hay, o + 1, o + Len(needle)) = needle

\* the records of buf whose lower-cased name contains the lower-cased k
Matching(buf, k) ==
    SelectSeq(buf, LAMBDA t : IsSubstr(to_lowercase(k), to_lowercase(t.name)))

\* C7: find_items_by_name gives exactly the subsequence of the records whose
\* lower-cased name contains the lower-cased keyword, in store order, and
\* leaves the record sequence of the store as it was loaded.
C7_Find ==
    /\ \A k \in Keywords : find_items_by_name(buffer, k) = Matching(buffer, k)
    /\ last.op = "find" =>
         /\ last.ret = Matching(buffer, cmd.name)
         /\ buffer = open(file0, "ok").buffer

\* a find with an upper-case keyword matched inside names, not all of them
C7_Witness ==
    /\ last.op = "find"
    /\ cmd.name = <<"B">>
    /\ Len(last.ret) >= 2
    /\ Len(last.ret) < Len(buffer)
    /\ \E i \in 1..Len(last.ret) : last.ret[i].name = <<"a", "b">>

\* C8: the main flow does not hold the lock of the store while it waits in
\* the Selector, every holder releases it at the end of the call it took it
\* for, and a bound deletion action can always take the lock and complete.
C8_LockDiscipline ==
    /\ pc \in {"view_wait", "delete_wait"} => listLock # "main"
    /\ pc \in {"drop", "exited", "idle"} => listLock = "free"
    /\ listLock = "action" <=> act = "locked"
    /\ act = "acquire" => listLock = "free" /\ ENABLED ActionLock
    /\ act = "locked" => ENABLED ActionDelete

\* a bound action took the lock and deleted while the main flow waited
C8_Witness ==
    /\ pc = "delete_wait"
    /\ act = "done"
    /\ last.op = "del"
    /\ listLock = "free"

\* the records held before and after a step stand in the same relative order
KeptOrder(old, new) ==
    \A i, j \in 1..Len(new) :
        i < j /\ new[i] \in Range(old) /\ new[j] \in Range(old) =>
            \E a, b \in 1..Len(old) : a < b /\ old[a] = new[i] /\ old[b] = new[j]

\* C9: no operation moves a record: the records still held stand in the
\* relative order in which they were inserted.
C9_InsertionOrder == [][KeptOrder(buffer, buffer')]_vars

\* a confirmed candidate is deleted in this step
DeletesSelected == last.op # "del" /\ last'.op = "del"

\* C10: when the user confirms a candidate, the record removed from the
\* store is the selected record itself; when the user cancels, none is.
C10_SelectedRemoved ==
    [][ /\ DeletesSelected => RemovedOne(buffer, buffer', todos[selected])
        /\ sel = "cancelled" => buffer' = buffer \/ pc' = "idle" ]_vars

====
